---- MODULE Spec2Model ----
(***************************************************************************)
(* Model of src/src/rates.py: pointwise rate <-> factor conversion under a *)
(* compounding convention, spot -> forward factor derivation, and the      *)
(* multi-representation curve table built by rate_factor_converter.        *)
(*                                                                         *)
(* Numbers.  The program computes in binary64.  The model computes the     *)
(* real number each float operation approximates, exactly, over the reals  *)
(* of the form rho * e^ex with rho and ex rational: the rationals,         *)
(* closed under + - * / and exact roots, and the values of exp on them.    *)
(* A result outside that set (an irrational root, the logarithm of a       *)
(* rational other than 1, a numerator or denominator beyond Limit) is the  *)
(* value "unrep"; the inputs the actions                                   *)
(* draw are those whose results are all inside it.  Rounding is therefore  *)
(* not modelled: an equality of the model is an equality of real numbers,  *)
(* which the floats satisfy up to rounding.                                *)
(***************************************************************************)
EXTENDS Integers, Sequences, FiniteSets, TLC

\* ------------------------------------------------------------- bounds ----
\* Longest list of factors handed to factor_to_forward.
MaxLen == 3
\* Longest curve handed to rate_factor_converter.
MaxCurve == 2
\* Largest time to maturity (years) of a pointwise conversion or a curve node.
MaxTtm == 2
\* Largest valid compounding frequency (periods per year).
MaxFreq == 2
\* Largest numerator or denominator of a number of the model.
Limit == 30000

\* -------------------------------------------------- exact rationals ------
\* A rational is <<n, d>> with d > 0 and gcd(n, d) = 1.
Abs(x) == IF x < 0 THEN -x ELSE x

RECURSIVE Gcd(_, _)
Gcd(a, b) == IF b = 0 THEN a ELSE Gcd(b, a % b)

Norm(n, d) ==
    LET g == Gcd(Abs(n), Abs(d))
        s == IF d < 0 THEN -1 ELSE 1
    IN  <<(s * n) \div g, (s * d) \div g>>

R(n) == <<n, 1>>
RNeg(a) == <<-a[1], a[2]>>
RSign(a) == IF a[1] > 0 THEN 1 ELSE IF a[1] < 0 THEN -1 ELSE 0
RAdd(a, b) == Norm(a[1] * b[2] + b[1] * a[2], a[2] * b[2])
RSub(a, b) == RAdd(a, RNeg(b))
\* Cross-cancelling product: the factors stay small.
RMul(a, b) ==
    LET g1 == Gcd(Abs(a[1]), b[2])
        g2 == Gcd(Abs(b[1]), a[2])
    IN  Norm((a[1] \div g1) * (b[1] \div g2), (a[2] \div g2) * (b[2] \div g1))
RInv(a) == Norm(a[2], a[1])
RDiv(a, b) == RMul(a, RInv(b))
RIsInt(a) == a[2] = 1

\* min(b^k, cap + 1) for b >= 0, without computing a larger number.
RECURSIVE IPowCap(_, _, _)
IPowCap(b, k, cap) ==
    IF k = 0 THEN 1
    ELSE LET p == IPowCap(b, k - 1, cap)
         IN  IF b = 0 THEN 0
             ELSE IF p > cap \div b THEN cap + 1 ELSE p * b

\* a^k for an integer k (a # 0 when k < 0); a numerator or denominator
\* beyond Limit is Limit + 1.
RPowInt(a, k) ==
    LET m == Abs(k)
        s == IF a[1] < 0 /\ m % 2 = 1 THEN -1 ELSE 1
        n == IPowCap(Abs(a[1]), m, Limit)
        d == IPowCap(a[2], m, Limit)
    IN  IF k >= 0 THEN <<s * n, d>> ELSE <<s * d, n>>

\* The least r in lo .. hi with r^k >= x (x >= 0, k >= 1, hi^k >= x), by
\* bisection.
RECURSIVE IRootIn(_, _, _, _)
IRootIn(lo, hi, x, k) ==
    IF lo >= hi THEN lo
    ELSE LET mid == (lo + hi) \div 2
         IN  IF IPowCap(mid, k, x) >= x
             THEN IRootIn(lo, mid, x, k)
             ELSE IRootIn(mid + 1, hi, x, k)

IRoot(x, k) == IRootIn(0, x, x, k)

IsPerfectPower(x, k) == IPowCap(IRoot(x, k), k, x) = x

\* Whether the positive rational a has a rational k-th root, and that root.
RHasRoot(a, k) == IsPerfectPower(a[1], k) /\ IsPerfectPower(a[2], k)
RRoot(a, k) == <<IRoot(a[1], k), IRoot(a[2], k)>>

\* ------------------------------------------------------ Python values ----
\* t: "num" (the real rho * e^ex), "inf", "-inf", "nan" (float specials),
\*    "None", "str" (the string s), an exception name (the evaluation raised
\*    it), or "unrep" (a finite real outside the model's number set).
V(t, rho, ex, s) == [t |-> t, rho |-> rho, ex |-> ex, s |-> s]
Small(q) == Abs(q[1]) <= Limit /\ q[2] <= Limit
NumE(rho, ex) ==
    IF Small(rho) /\ Small(ex)
    THEN V("num", rho, IF rho[1] = 0 THEN R(0) ELSE ex, "")
    ELSE V("unrep", R(0), R(0), "")
Num(q) == NumE(q, R(0))
IntV(n) == Num(R(n))
Str(s) == V("str", R(0), R(0), s)
Special(t) == V(t, R(0), R(0), "")
None == Special("None")
NaN == Special("nan")
Unrep == Special("unrep")

Exceptions == {"ZeroDivisionError", "TypeError", "ValueError"}
IsExc(a) == a.t \in Exceptions
IsNum(a) == a.t = "num"
IsRat(a) == a.t = "num" /\ a.ex = R(0)
IsZero(a) == a.t = "num" /\ a.rho[1] = 0

\* What both operands decide before the operation itself: an exception
\* raised while evaluating an operand, an operand of the wrong type, a NaN.
\* None is what pandas stores as NaN in a float column.
Pre(a, b) ==
    IF IsExc(a) THEN a
    ELSE IF IsExc(b) THEN b
    ELSE IF a.t = "str" \/ b.t = "str" THEN Special("TypeError")
    ELSE IF a.t = "unrep" \/ b.t = "unrep" THEN Unrep
    ELSE IF a.t \in {"nan", "None"} \/ b.t \in {"nan", "None"} THEN NaN
    ELSE IF a.t # "num" \/ b.t # "num" THEN Unrep
    ELSE Special("ok")

\* -a
VNeg(a) ==
    IF IsExc(a) THEN a
    ELSE IF a.t = "str" THEN Special("TypeError")
    ELSE IF a.t = "num" THEN NumE(RNeg(a.rho), a.ex)
    ELSE IF a.t = "inf" THEN Special("-inf")
    ELSE IF a.t = "-inf" THEN Special("inf")
    ELSE IF a.t = "None" THEN NaN
    ELSE a

\* a * b
VMul(a, b) ==
    LET p == Pre(a, b)
    IN  IF p.t # "ok" THEN p
        ELSE NumE(RMul(a.rho, b.rho), RAdd(a.ex, b.ex))

\* a + b and a - b: exact when both are rationals.
VAdd(a, b) ==
    LET p == Pre(a, b)
    IN  IF p.t # "ok" THEN p
        ELSE IF IsZero(a) THEN b
        ELSE IF IsZero(b) THEN a
        ELSE IF IsRat(a) /\ IsRat(b) THEN Num(RAdd(a.rho, b.rho))
        ELSE IF a.ex = b.ex THEN NumE(RAdd(a.rho, b.rho), a.ex)
        ELSE Unrep
VSub(a, b) == VAdd(a, VNeg(b))

\* a / b.  mode "py": Python numbers, a zero divisor raises.  mode "np":
\* numpy numbers (a Series, an np.float64), a zero divisor gives inf or nan.
VDiv(mode, a, b) ==
    LET p == Pre(a, b)
    IN  IF p.t # "ok" THEN p
        ELSE IF IsZero(b)
             THEN IF mode = "py" THEN Special("ZeroDivisionError")
                  ELSE IF RSign(a.rho) > 0 THEN Special("inf")
                  ELSE IF RSign(a.rho) < 0 THEN Special("-inf")
                  ELSE NaN
        ELSE NumE(RDiv(a.rho, b.rho), RSub(a.ex, b.ex))

\* a ** b for a rational exponent b.
VPow(mode, a, b) ==
    IF IsExc(a) THEN a
    ELSE IF IsExc(b) THEN b
    ELSE IF a.t = "str" \/ b.t = "str" THEN Special("TypeError")
    ELSE IF IsZero(b) THEN IntV(1)
    ELSE LET p == Pre(a, b)
         IN  IF p.t # "ok" THEN p
             ELSE IF ~IsRat(b) THEN Unrep
             ELSE IF IsZero(a)
                  THEN IF RSign(b.rho) > 0 THEN IntV(0)
                       ELSE IF mode = "py" THEN Special("ZeroDivisionError")
                       ELSE Special("inf")
             ELSE IF RSign(a.rho) < 0
                  THEN IF RIsInt(b.rho) /\ a.ex = R(0)
                       THEN Num(RPowInt(a.rho, b.rho[1]))
                       ELSE IF RIsInt(b.rho) THEN Unrep
                       ELSE IF mode = "py" THEN Unrep ELSE NaN
             ELSE LET q == RPowInt(a.rho, b.rho[1])
                      k == b.rho[2]
                  IN  IF Small(q) /\ RHasRoot(q, k)
                      THEN NumE(RRoot(q, k), RMul(a.ex, b.rho))
                      ELSE Unrep

\* np.exp(a)
VExp(a) ==
    IF IsExc(a) THEN a
    ELSE IF a.t = "str" THEN Special("TypeError")
    ELSE IF a.t \in {"nan", "None"} THEN NaN
    ELSE IF IsRat(a) THEN NumE(R(1), a.rho)
    ELSE Unrep

\* np.log(a)
VLog(a) ==
    IF IsExc(a) THEN a
    ELSE IF a.t = "str" THEN Special("TypeError")
    ELSE IF a.t \in {"nan", "None"} THEN NaN
    ELSE IF a.t # "num" THEN Unrep
    ELSE IF IsZero(a) THEN Special("-inf")
    ELSE IF RSign(a.rho) < 0 THEN NaN
    ELSE IF a.rho = R(1) THEN Num(a.ex)
    ELSE Unrep

\* compounding_freq == 'continuous'
IsContinuous(c) == c.t = "str" /\ c.s = "continuous"

\* ------------------------------------------------- 1. Rate Conversion ----
\* rate_to_factor with the maturity left out of the periodic exponent and of
\* the continuous one.
rate_to_factor_without_ttm(mode, discount_rate, ttm, compounding_freq) ==
    IF IsContinuous(compounding_freq)
    THEN VExp(VNeg(discount_rate))
    ELSE VPow(mode,
              VAdd(IntV(1), VDiv(mode, discount_rate, compounding_freq)),
              VNeg(compounding_freq))

\* rate_to_factor, on Python numbers (mode "py") or elementwise on the
\* Series of the table (mode "np").
rate_to_factor(mode, discount_rate, ttm, compounding_freq) ==
    IF IsContinuous(compounding_freq)
    THEN VExp(VMul(VNeg(discount_rate), ttm))
    ELSE VPow(mode,
              VAdd(IntV(1), VDiv(mode, discount_rate, compounding_freq)),
              VMul(VNeg(compounding_freq), ttm))

\* factor_to_rate.  np.log returns a numpy float, so the division by ttm of
\* the continuous branch is numpy's in either mode.
factor_to_rate(mode, discount_factor, ttm, compounding_freq) ==
    IF IsContinuous(compounding_freq)
    THEN VDiv("np", VLog(VDiv(mode, IntV(1), discount_factor)), ttm)
    ELSE VMul(VSub(VPow(mode,
                        VDiv(mode, IntV(1), discount_factor),
                        VDiv(mode, VDiv(mode, IntV(1), compounding_freq), ttm)),
                   IntV(1)),
              compounding_freq)

\* factor_to_forward dividing every later factor by the first one.
factor_to_forward_from_first(mode, factors) ==
    LET forward_factors ==
            [i \in 1 .. (Len(factors) - 1) |-> VDiv(mode, factors[i + 1], factors[1])]
    IN  Append(forward_factors, None)

\* factor_to_forward with the ratio upside down.
factor_to_forward_inverted(mode, factors) ==
    LET forward_factors ==
            [i \in 1 .. (Len(factors) - 1) |-> VDiv(mode, factors[i], factors[i + 1])]
    IN  Append(forward_factors, None)

\* factor_to_forward: the list comprehension over range(len(factors) - 1),
\* then the appended None.
factor_to_forward(mode, factors) ==
    LET forward_factors ==
            [i \in 1 .. (Len(factors) - 1) |-> VDiv(mode, factors[i + 1], factors[i])]
    IN  Append(forward_factors, None)

\* ------------------------------------------------- call outcomes ---------
NoResult == [kind |-> "none", exc |-> "", val |-> None]
Return(v) == [kind |-> "return", exc |-> "", val |-> v]
Raise(e) == [kind |-> "raise", exc |-> e, val |-> None]

\* The outcome of a call whose body is one expression.
Outcome(v) == IF IsExc(v) THEN Raise(v.t) ELSE Return(v)

\* The outcome of a call that builds a list: the first element whose
\* evaluation raises ends the call.
ListOutcome(l) ==
    IF \E i \in 1 .. Len(l) : IsExc(l[i])
    THEN Raise(l[CHOOSE i \in 1 .. Len(l) :
                    IsExc(l[i]) /\ \A j \in 1 .. (i - 1) : ~IsExc(l[j])].t)
    ELSE Return(l)


\* ------------------------------------------------------- inputs ---------
\* Annualized rates, decimal form; -1 makes 1 + rate/1 zero.
Rates == {Num(<<-1, 1>>), Num(<<0, 1>>), Num(<<1, 2>>), Num(<<1, 1>>)}
Ttms == {IntV(t) : t \in 0 .. MaxTtm}
\* "continuous" or a positive number of periods per year.
Conventions == {Str("continuous")} \cup {IntV(n) : n \in 1 .. MaxFreq}
\* Another string, zero, negative integers.
InvalidConventions == {Str("weekly"), IntV(0), IntV(-1), IntV(-2)}
AnyConvention == Conventions \cup InvalidConventions

\* The discount factors of the rates above, at a positive maturity.
DiscountFactors ==
    {f \in {rate_to_factor("py", r, t, c) : r \in Rates, t \in Ttms \ {IntV(0)},
                                            c \in Conventions} : IsNum(f)}

\* Spot factors of a term structure (the scenario's 0.97, 0.94, 0.90).
SpotFactors == {Num(<<1, 1>>), Num(<<97, 100>>), Num(<<47, 50>>), Num(<<9, 10>>)}

RECURSIVE SeqsOf(_, _)
SeqsOf(S, n) ==
    IF n = 0 THEN {<<>>}
    ELSE {Append(q, x) : q \in SeqsOf(S, n - 1), x \in S}
SeqsUpTo(S, lo, hi) == UNION {SeqsOf(S, n) : n \in lo .. hi}

IsUnrep(v) == v.t = "unrep"

\* ------------------------------------------------- the curve table -------
\* 'DR', 'DF', 'FR', 'FF'
input_set == {"DR", "DF", "FR", "FF"}
InputTypes == input_set \cup {"XX"}
CurveRates == {Num(<<0, 1>>), Num(<<1, 2>>), Num(<<1, 1>>)}
CurveTtms == {IntV(t) : t \in 1 .. (MaxTtm + 1)}

\* A DataFrame: a function from the column names to the columns.  NoData:
\* no table exists.
NoData == <<>>
Columns(df) == DOMAIN df

\* A list stored as a float column: pandas stores None as NaN.
AsColumn(l) == [i \in 1 .. Len(l) |-> IF l[i].t = "None" THEN NaN ELSE l[i]]

\* pd.DataFrame({'TTM': input_ttms, input_type: input_values})
NewTable(input_type, input_values, input_ttms) ==
    ("TTM" :> input_ttms) @@ (input_type :> input_values)

\* data['DF'] = rate_to_factor(data['DR'], data['TTM'], dr_compounding_freq)
WithDF(df, dr_compounding_freq) ==
    df @@ ("DF" :> [i \in 1 .. Len(df["TTM"]) |->
                       rate_to_factor("np", df["DR"][i], df["TTM"][i],
                                      dr_compounding_freq)])

\* data['FF'] = factor_to_forward(data['DF'])
WithFF(df) == df @@ ("FF" :> AsColumn(factor_to_forward("np", df["DF"])))

\* data['FR'] = factor_to_rate(data['FF'], data['TTM'], fr_compounding_freq)
WithFR(df, fr_compounding_freq) ==
    df @@ ("FR" :> [i \in 1 .. Len(df["TTM"]) |->
                       factor_to_rate("np", df["FF"][i], df["TTM"][i],
                                      fr_compounding_freq)])

\* The table of the 'DR' branch, lines 88-93.
CurveTable(values, ttms, dr, fr) ==
    WithFR(WithFF(WithDF(NewTable("DR", values, ttms), dr)), fr)

\* Curves whose every table entry is in the model's number set.
Exact(values, ttms, dr, fr) ==
    LET df == CurveTable(values, ttms, dr, fr)
    IN  \A c \in Columns(df) : \A i \in 1 .. Len(df[c]) : ~IsUnrep(df[c][i])

\* The curves handed to rate_factor_converter, <<values, ttms, dr, fr>>: at
\* least two nodes, as many values as maturities (increasing or not), valid
\* conventions.
CurveInputs ==
    UNION {{c \in SeqsOf(CurveRates, n) \X SeqsOf(CurveTtms, n)
                    \X Conventions \X Conventions :
               Exact(c[1], c[2], c[3], c[4])} : n \in 2 .. MaxCurve}

\* --------------------------------------------------------- state ---------
VARIABLES
    pc,      \* "idle", a line of rate_factor_converter, or "done"
    op,      \* the function called
    args,    \* its arguments
    data,    \* rate_factor_converter's local table
    result   \* how the call ended
vars == <<pc, op, args, data, result>>

NoArgs == [none |-> TRUE]

Init ==
    /\ pc = "idle"
    /\ op = "none"
    /\ args = NoArgs
    /\ data = NoData
    /\ result = NoResult

\* rate_to_factor(discount_rate, ttm, compounding_freq) on Python numbers.
CallRateToFactor ==
    /\ pc = "idle"
    /\ \E r \in Rates, t \in Ttms, c \in AnyConvention :
          LET v == rate_to_factor("py", r, t, c)
          IN  /\ ~IsUnrep(v)
              /\ op' = "rate_to_factor"
              /\ args' = [discount_rate |-> r, ttm |-> t, compounding_freq |-> c]
              /\ result' = Outcome(v)
    /\ pc' = "done"
    /\ UNCHANGED data

\* factor_to_rate(discount_factor, ttm, compounding_freq) on Python numbers.
CallFactorToRate ==
    /\ pc = "idle"
    /\ \E f \in DiscountFactors, t \in Ttms, c \in AnyConvention :
          LET v == factor_to_rate("py", f, t, c)
          IN  /\ ~IsUnrep(v)
              /\ op' = "factor_to_rate"
              /\ args' = [discount_factor |-> f, ttm |-> t, compounding_freq |-> c]
              /\ result' = Outcome(v)
    /\ pc' = "done"
    /\ UNCHANGED data

\* factor_to_forward(factors) on a list of Python floats.
CallFactorToForward ==
    /\ pc = "idle"
    /\ \E factors \in SeqsUpTo(SpotFactors, 0, MaxLen) :
          /\ op' = "factor_to_forward"
          /\ args' = [factors |-> factors]
          /\ result' = ListOutcome(factor_to_forward("py", factors))
    /\ pc' = "done"
    /\ UNCHANGED data

\* rate_factor_converter(input_type, input_values, input_ttms,
\* dr_compounding_freq, fr_compounding_freq) is entered: line 83.
CallConverter ==
    /\ pc = "idle"
    /\ \E c \in CurveInputs, ty \in InputTypes :
          args' = [input_type |-> ty, input_values |-> c[1],
                   input_ttms |-> c[2], dr_compounding_freq |-> c[3],
                   fr_compounding_freq |-> c[4]]
    /\ op' = "rate_factor_converter"
    /\ pc' = "L85"
    /\ UNCHANGED <<data, result>>

\* Lines 85-86 without the membership test: every input type goes on.
CheckInputTypeSkipped ==
    /\ pc = "L85"
    /\ pc' = "L88"
    /\ UNCHANGED <<op, args, data, result>>

\* Lines 85-86: if input_type not in input_set: raise ValueError(...)
CheckInputType ==
    /\ pc = "L85"
    /\ IF args.input_type \notin input_set
       THEN /\ result' = Raise("ValueError")
            /\ pc' = "done"
       ELSE /\ pc' = "L88"
            /\ UNCHANGED result
    /\ UNCHANGED <<op, args, data>>

\* Line 88: data = pd.DataFrame({'TTM': input_ttms, input_type: input_values})
BuildTable ==
    /\ pc = "L88"
    /\ data' = NewTable(args.input_type, args.input_values, args.input_ttms)
    /\ pc' = "L90"
    /\ UNCHANGED <<op, args, result>>

\* Line 90, input_type == 'DR', and line 91.
ComputeDF ==
    /\ pc = "L90"
    /\ args.input_type = "DR"
    /\ data' = WithDF(data, args.dr_compounding_freq)
    /\ pc' = "L92"
    /\ UNCHANGED <<op, args, result>>

\* Line 90, input_type != 'DR': no branch is taken.
SkipBranch ==
    /\ pc = "L90"
    /\ args.input_type # "DR"
    /\ pc' = "end"
    /\ UNCHANGED <<op, args, data, result>>

\* Line 92.
ComputeFF ==
    /\ pc = "L92"
    /\ data' = WithFF(data)
    /\ pc' = "L93"
    /\ UNCHANGED <<op, args, result>>

\* Line 93.
ComputeFR ==
    /\ pc = "L93"
    /\ data' = WithFR(data, args.fr_compounding_freq)
    /\ pc' = "end"
    /\ UNCHANGED <<op, args, result>>

\* The function body ends without a return statement: the call returns None.
FallOffEnd ==
    /\ pc = "end"
    /\ result' = Return(None)
    /\ pc' = "done"
    /\ UNCHANGED <<op, args, data>>

\* The caller has the outcome; the next call starts from scratch.
Finish ==
    /\ pc = "done"
    /\ pc' = "idle"
    /\ op' = "none"
    /\ args' = NoArgs
    /\ data' = NoData
    /\ result' = NoResult

Next ==
    \/ CallRateToFactor
    \/ CallFactorToRate
    \/ CallFactorToForward
    \/ CallConverter
    \/ CheckInputType
    \/ BuildTable
    \/ ComputeDF
    \/ SkipBranch
    \/ ComputeFF
    \/ ComputeFR
    \/ FallOffEnd
    \/ Finish

Spec == Init /\ [][Next]_vars

\* ------------------------------------------------------- claims ----------
Done(f) == op = f /\ pc = "done"
RLess(a, b) == a[1] * b[2] < b[1] * a[2]
StrictlyIncreasing(ttms) ==
    \A i \in 1 .. (Len(ttms) - 1) : RLess(ttms[i].rho, ttms[i + 1].rho)
Representations == {"DR", "DF", "FR", "FF"}

RECURSIVE RProduct(_)
RProduct(l) == IF l = <<>> THEN R(1) ELSE RMul(Head(l).rho, RProduct(Tail(l)))

\* C1: for k >= 1 spot factors, factor_to_forward returns k elements; element
\* i < k-1 (0-based) is factors[i+1] / factors[i], the last is None, and no
\* other element is None.
C1_ForwardElements ==
    (Done("factor_to_forward") /\ Len(args.factors) >= 1) =>
        LET f == args.factors
            k == Len(f)
        IN  /\ result.kind = "return"
            /\ Len(result.val) = k
            /\ \A i \in 1 .. (k - 1) :
                  /\ result.val[i] = Num(RDiv(f[i + 1].rho, f[i].rho))
                  /\ result.val[i] # None
            /\ result.val[k] = None

\* The scenario of the specification: 0.97, 0.94, 0.90.
C1_Witness ==
    /\ Done("factor_to_forward")
    /\ args.factors = <<Num(<<97, 100>>), Num(<<47, 50>>), Num(<<9, 10>>)>>
    /\ result = Return(<<Num(<<94, 97>>), Num(<<45, 47>>), None>>)

\* C2: on an input of length 0 or 1, factor_to_forward returns a list of the
\* same length, all None; an empty input gives an empty output.
C2_ShortInputSameLength ==
    (Done("factor_to_forward") /\ Len(args.factors) <= 1) =>
        /\ result.kind = "return"
        /\ Len(result.val) = Len(args.factors)
        /\ \A i \in 1 .. Len(result.val) : result.val[i] = None

\* C3: called with 'DR', rate_factor_converter returns a table with the
\* columns TTM, DR, DF, FF, FR, one row per input maturity, in input order.
C3_ReturnsCurve ==
    (Done("rate_factor_converter") /\ args.input_type = "DR") =>
        /\ result.kind = "return"
        /\ DOMAIN result.val = {"TTM", "DR", "DF", "FF", "FR"}
        /\ result.val["TTM"] = args.input_ttms
        /\ \A c \in DOMAIN result.val : Len(result.val[c]) = Len(args.input_ttms)

\* C4: in the 'DR' case the forward rate of every row but the last is
\* factor_to_rate of its forward factor over the interval ttm[i+1] - ttm[i],
\* and the last row's forward rate is missing.  Stated for increasing
\* maturities, and only where the interval-based rate is a number of the model.
C4_ForwardRateOverInterval ==
    (/\ op = "rate_factor_converter"
     /\ args.input_type = "DR"
     /\ StrictlyIncreasing(args.input_ttms)
     /\ "FR" \in Columns(data)) =>
        LET t == args.input_ttms
            k == Len(t)
            expected(i) == factor_to_rate("np", data["FF"][i], VSub(t[i + 1], t[i]),
                                          args.fr_compounding_freq)
        IN  /\ \A i \in 1 .. (k - 1) :
                  IsUnrep(expected(i)) \/ data["FR"][i] = expected(i)
            /\ data["FR"][k] = NaN

\* C5: an input type outside the four representations raises (ValueError, the
\* program's unsupported-representation error) before any table is built or
\* any conversion made.
C5_UnsupportedTypeRaisesFirst ==
    (op = "rate_factor_converter" /\ args.input_type \notin Representations) =>
        /\ Columns(data) = {}
        /\ pc \in {"L85", "done"}
        /\ pc = "done" => result = Raise("ValueError")

C5_Witness ==
    /\ Done("rate_factor_converter")
    /\ args.input_type = "XX"
    /\ result.kind = "raise"
    /\ Columns(data) = {}

\* C6: factor_to_rate with ttm = 0 raises a division-by-zero error under
\* every valid convention, and never returns inf or NaN.
C6_ZeroTtmRaises ==
    (/\ Done("factor_to_rate")
     /\ args.ttm = IntV(0)
     /\ args.compounding_freq \in Conventions) =>
        result = Raise("ZeroDivisionError")

\* C7: rate_to_factor and factor_to_rate raise whenever the convention is
\* neither 'continuous' nor a positive integer, and never return a number.
C7_InvalidConventionRaises ==
    (/\ Done("rate_to_factor") \/ Done("factor_to_rate")
     /\ args.compounding_freq \in InvalidConventions) =>
        result.kind = "raise"

\* C8: rate_factor_converter called with maturities that are not strictly
\* increasing raises, and does so before the forward factors are derived.
C8_NonMonotonicRaises ==
    (/\ op = "rate_factor_converter"
     /\ args.input_type = "DR"
     /\ ~StrictlyIncreasing(args.input_ttms)) =>
        /\ "FF" \notin Columns(data)
        /\ pc = "done" => result.kind = "raise"

\* C9: for k >= 2 positive spot factors, the product of the forward factors
\* (the non-missing ones) is factors[k-1] / factors[0].
C9_ForwardComposition ==
    (Done("factor_to_forward") /\ Len(args.factors) >= 2) =>
        LET f == args.factors
            k == Len(f)
        IN  /\ result.kind = "return"
            /\ RProduct(SubSeq(result.val, 1, k - 1)) = RDiv(f[k].rho, f[1].rho)

C9_Witness ==
    /\ Done("factor_to_forward")
    /\ args.factors = <<Num(<<97, 100>>), Num(<<47, 50>>), Num(<<9, 10>>)>>
    /\ result.kind = "return"
    /\ RProduct(SubSeq(result.val, 1, 2)) = <<90, 97>>

\* C10: rate_to_factor with ttm = 0 returns exactly 1, for any rate and any
\* valid convention.
C10_IdentityAtZeroTtm ==
    (/\ Done("rate_to_factor")
     /\ args.ttm = IntV(0)
     /\ args.compounding_freq \in Conventions) =>
        result = Return(IntV(1))

\* A periodic call whose base 1 + rate/freq is zero.
C10_Witness ==
    /\ Done("rate_to_factor")
    /\ args.ttm = IntV(0)
    /\ args.discount_rate = IntV(-1)
    /\ args.compounding_freq = IntV(1)
    /\ result = Return(IntV(1))
====
